---------------------------- MODULE Spec2Model ----------------------------
(***************************************************************************)
(* Model of the cross-frame visualization subsystem of                     *)
(* accessibility-insights-web: one DrawingController per frame             *)
(* (src/src/injected/drawing-controller.ts), the drawers and the           *)
(* visibility checker it drives, and the 'insights.draw' messages the      *)
(* controllers forward to the iframes of their document.                   *)
(*                                                                         *)
(* The controller is modelled from its source.  Its collaborators (Drawer, *)
(* InstanceVisibilityChecker, HtmlElementAxeResultsHelper,                 *)
(* FrameCommunicator, HTMLElementUtils) are not part of the available      *)
(* source; they are modelled from their description in spec.md and are     *)
(* marked as such where they are defined.                                  *)
(***************************************************************************)
EXTENDS Naturals, Sequences, FiniteSets, Bags, TLC

VARIABLES
    iframes,                \* frame -> the iframe elements of its document, in document order
    contentWindow,          \* iframe -> TRUE iff the element has a content window
    drawers,                \* frame -> DrawingController._drawers of that frame's controller
    intervals,              \* frame -> configId -> number of active visibility-check intervals
    featureFlagStoreData,   \* frame -> DrawingController._featureFlagStoreData
    subscribed,             \* frame -> TRUE iff onTriggerVisualization is subscribed to 'insights.draw'
    network,                \* bag of 'insights.draw' requests in flight (unordered)
    calls,                  \* number of direct calls made by the host so far
    disposed,               \* history: the frames whose controller was disposed
    deliveries,             \* history: frame -> number of requests its subscribed handler was run on
    last                    \* history: the operation that produced the current state

vars == <<iframes, contentWindow, drawers, intervals, featureFlagStoreData, subscribed, network,
         calls, disposed, deliveries, last>>

---------------------------------------------------------------------------
(* Bounds *)

\* Number of direct calls (processRequest on the top frame, dispose) the host
\* makes in one behaviour.
MaxCalls == 2

\* Longest list of instances handed to the visibility filter in SpecFilter.
MaxLen == 4

---------------------------------------------------------------------------
(* Documents: the frames of the page *)

Top == "top"
F1 == "f1"
F2 == "f2"
Frames == {Top, F1, F2}

\* HTMLIFrameResult.frame === null: "belongs to the current document".
NullFrame == "null"

\* The pages explored: two sibling iframes; an iframe nested in an iframe; two
\* sibling iframes of which the second has no content window; two sibling
\* iframes of which the first has none.
Documents ==
    { [iframes |-> [f \in Frames |-> IF f = Top THEN <<F1, F2>> ELSE <<>>],
       contentWindow |-> [f \in Frames |-> TRUE]],
      [iframes |-> [f \in Frames |-> IF f = Top THEN <<F1>> ELSE IF f = F1 THEN <<F2>> ELSE <<>>],
       contentWindow |-> [f \in Frames |-> TRUE]],
      [iframes |-> [f \in Frames |-> IF f = Top THEN <<F1, F2>> ELSE <<>>],
       contentWindow |-> [f \in Frames |-> f # F2]],
      [iframes |-> [f \in Frames |-> IF f = Top THEN <<F1, F2>> ELSE <<>>],
       contentWindow |-> [f \in Frames |-> f # F1]] }

Range(s) == {s[i] : i \in 1..Len(s)}

\* The frames of the documents nested (at any depth) in iframe c, c included.
RECURSIVE FramesUnder(_)
FramesUnder(c) == {c} \cup UNION {FramesUnder(d) : d \in Range(iframes[c])}

---------------------------------------------------------------------------
(* Data *)

\* An optional list: elementResults?: AssessmentVisualizationInstance[]
\* (absent, undefined and null are all falsy / == null in the source).
NoResults == [present |-> FALSE, items |-> <<>>]
Results(s) == [present |-> TRUE, items |-> s]

\* FeatureFlagStoreData snapshots; "undefined" is the absent optional field.
Undefined == "undefined"
FlagsOn == "showInstanceVisibility:true"
FlagsOff == "showInstanceVisibility:false"

\* Tri-state instance flags.
Unset == "unset"
True == "true"
False == "false"
TriState == {Unset, True, False}

Instance(id, owner, vis, en) ==
    [id |-> id, owner |-> owner, isVisible |-> vis, isVisualizationEnabled |-> en]


---------------------------------------------------------------------------
(* Visualization configuration and the drawer registry *)

\* The values of the VisualizationType enum.
VisualizationTypes == {"Issues", "Headings"}

\* AssessmentsProvider.isValidType: the assessment-style types.
isValidType(visualizationType) == visualizationType = "Headings"

\* AssessmentsProvider.getStepMap: the keys of the test steps of an assessment.
getStepMap(visualizationType) ==
    IF visualizationType = "Headings" THEN {"headingFunction"} ELSE {}

NoStep == "(none)"

\* VisualizationConfiguration.getIdentifier(testStep?): the configId.
getIdentifier(visualizationType, testStep) ==
    CASE testStep = NoStep -> visualizationType
      [] visualizationType = "Headings" /\ testStep = "headingFunction" -> "Headings.headingFunction"
      [] OTHER -> "(no such step)"

\* A Drawer that was built and never initialized: idle, no overlay.
NewDrawer ==
    [initialized |-> FALSE, data |-> NoResults,
     featureFlagStoreData |-> Undefined, isLayoutDrawn |-> FALSE]

\* The (visualizationType, testStep) pairs setupDrawers walks over: every test
\* step of an assessment type, and the type alone otherwise.
RegistryKeys ==
    UNION { IF isValidType(t) THEN {<<t, step>> : step \in getStepMap(t)}
                              ELSE {<<t, NoStep>>}
            : t \in VisualizationTypes }

\* Mutant of setupDrawers: the test steps of an assessment are not walked, its
\* drawer is registered under the identifier of the type alone.
setupDrawersTypesOnly ==
    [id \in {getIdentifier(t, NoStep) : t \in VisualizationTypes} |-> NewDrawer]

\* DrawingController.setupDrawers: _drawers after initialize().
setupDrawers ==
    [id \in {getIdentifier(k[1], k[2]) : k \in RegistryKeys} |-> NewDrawer]

RegisteredConfigIds == DOMAIN setupDrawers

\* A configId no configuration produces.
UnknownConfigId == "unregistered"

AllConfigIds == RegisteredConfigIds \cup {UnknownConfigId}

\* The (visualizationType, configId) pairs a well-formed request names.
Configured == {<<k[1], getIdentifier(k[1], k[2])>> : k \in RegistryKeys}

---------------------------------------------------------------------------
(* Drawer: owns the overlay of one configId in one frame *)

\* Drawer.initialize(config)
DrawerInitialize(drawer, config) ==
    [drawer EXCEPT !.initialized = TRUE, !.data = config.data,
                   !.featureFlagStoreData = config.featureFlagStoreData]

\* Drawer.drawLayout()
drawLayout(drawer) == [drawer EXCEPT !.isLayoutDrawn = TRUE]

\* Drawer.eraseLayout(): idempotent, safe on an uninitialized drawer.
eraseLayout(drawer) == [drawer EXCEPT !.isLayoutDrawn = FALSE]

---------------------------------------------------------------------------
(* InstanceVisibilityChecker: one polling interval per configId *)

\* Mutant of createVisibilityCheckerInterval: the interval of the id is not
\* cleared before a new one is started.
createVisibilityCheckerIntervalLeaks(ivs, configId) == [ivs EXCEPT ![configId] = @ + 1]

\* createVisibilityCheckerInterval: clears the interval of the id, then starts one.
createVisibilityCheckerInterval(ivs, configId) == [ivs EXCEPT ![configId] = 1]

\* clearVisibilityCheck: stops the interval of the id; a no-op when none runs.
clearVisibilityCheck(ivs, configId) == [ivs EXCEPT ![configId] = 0]

---------------------------------------------------------------------------
(* HtmlElementAxeResultsHelper: partition of the results by owning frame *)

NoSuchFrame == "(no such frame)"

\* The partition key of an instance seen from frame f: null when its target is
\* in f's own document, the iframe of f that leads to it when it is nested,
\* NoSuchFrame when no frame of the document holds it.
FrameOf(f, inst) ==
    IF inst.owner = f THEN NullFrame
    ELSE IF \E c \in Range(iframes[f]) : inst.owner \in FramesUnder(c)
         THEN CHOOSE c \in Range(iframes[f]) : inst.owner \in FramesUnder(c)
         ELSE NoSuchFrame

\* The partition keys of the results, in order of first occurrence.
RECURSIVE FrameKeys(_, _, _)
FrameKeys(f, results, seen) ==
    IF results = <<>> THEN <<>>
    ELSE LET k == FrameOf(f, Head(results)) IN
         IF k = NoSuchFrame \/ k \in seen
         THEN FrameKeys(f, Tail(results), seen)
         ELSE <<k>> \o FrameKeys(f, Tail(results), seen \cup {k})

\* splitResultsByFrame, run in frame f: one HTMLIFrameResult per owning frame;
\* an instance whose target frame is not in the document is dropped.
splitResultsByFrame(f, elementResults) ==
    LET keys == FrameKeys(f, elementResults, {}) IN
    [i \in 1..Len(keys) |->
        [frame |-> keys[i],
         elementResults |-> SelectSeq(elementResults, LAMBDA inst : FrameOf(f, inst) = keys[i])]]

---------------------------------------------------------------------------
(* Messages *)

triggerVisualizationCommand == "insights.draw"

\* VisualizationWindowMessage
Message(visualizationType, isEnabled, configId, elementResults, flags) ==
    [visualizationType |-> visualizationType, isEnabled |-> isEnabled,
     configId |-> configId, elementResults |-> elementResults,
     featureFlagStoreData |-> flags]

\* DrawingController.createFrameRequestMessage: the MessageRequest envelope.
createFrameRequestMessage(frame, message) ==
    [command |-> triggerVisualizationCommand, frame |-> frame, message |-> message]

---------------------------------------------------------------------------
(* DrawingController, one call at a time.                                  *)
(* A call runs on a context: the controller's fields and its frame's       *)
(* collaborators, plus what the call did (requests handed to the frame     *)
(* communicator, intervals asked of the visibility checker, responder      *)
(* invocations) and whether it raised.  A raise (a TypeError on undefined) *)
(* ends the call and keeps what was done.                                  *)

Context(f) ==
    [drawers |-> drawers[f], intervals |-> intervals[f],
     featureFlagStoreData |-> featureFlagStoreData[f],
     subscribed |-> subscribed[f],
     sent |-> <<>>, started |-> <<>>, responded |-> <<>>, threw |-> FALSE]

Throw(ctx) == [ctx EXCEPT !.threw = TRUE]

\* Mutant of getAllFrames: the iframes nested in the first iframe are listed
\* too.
getAllFramesWithNested(f) ==
    iframes[f] \o (IF iframes[f] = <<>> THEN <<>> ELSE iframes[iframes[f][1]])

\* HTMLElementUtils.getAllElementsByTagName('iframe') in frame f's document.
getAllFrames(f) == iframes[f]

\* Mutant of getInitialElements: an unset flag hides the instance.
getInitialElementsUnsetHides(currentFrameResults) ==
    IF ~currentFrameResults.present THEN NoResults
    ELSE Results(SelectSeq(currentFrameResults.items,
                           LAMBDA result : result.isVisible = True
                                           /\ result.isVisualizationEnabled = True))

\* Mutant of getInitialElements: every instance is kept.
getInitialElementsKeepsAll(currentFrameResults) ==
    IF ~currentFrameResults.present THEN NoResults
    ELSE Results(currentFrameResults.items)

\* DrawingController.getInitialElements
getInitialElements(currentFrameResults) ==
    IF ~currentFrameResults.present THEN NoResults
    ELSE Results(SelectSeq(currentFrameResults.items,
                           LAMBDA result : result.isVisible # False
                                           /\ result.isVisualizationEnabled # False))

\* Mutant of enableVisualizationInCurrentFrame: an unregistered configId is
\* skipped instead of raising.
enableVisualizationInCurrentFrameSkipsUnknown(ctx, currentFrameResults, configId) ==
    IF configId \notin DOMAIN ctx.drawers THEN ctx
    ELSE [ctx EXCEPT !.drawers[configId] =
            drawLayout(DrawerInitialize(@,
                [data |-> getInitialElements(currentFrameResults),
                 featureFlagStoreData |-> ctx.featureFlagStoreData]))]

\* Mutant of enableVisualizationInCurrentFrame: the new elements are added to
\* the ones the drawer already holds.
enableVisualizationInCurrentFrameAccumulates(ctx, currentFrameResults, configId) ==
    IF configId \notin DOMAIN ctx.drawers THEN Throw(ctx)
    ELSE LET held == ctx.drawers[configId].data
             initial == getInitialElements(currentFrameResults)
         IN [ctx EXCEPT !.drawers[configId] =
                drawLayout(DrawerInitialize(@,
                    [data |-> IF held.present \/ initial.present
                              THEN Results(held.items \o initial.items)
                              ELSE NoResults,
                     featureFlagStoreData |-> ctx.featureFlagStoreData]))]

\* DrawingController.enableVisualizationInCurrentFrame; getDrawer of an
\* unregistered configId is undefined, and drawer.initialize raises.
enableVisualizationInCurrentFrame(ctx, currentFrameResults, configId) ==
    IF configId \notin DOMAIN ctx.drawers THEN Throw(ctx)
    ELSE [ctx EXCEPT !.drawers[configId] =
            drawLayout(DrawerInitialize(@,
                [data |-> getInitialElements(currentFrameResults),
                 featureFlagStoreData |-> ctx.featureFlagStoreData]))]

\* Mutant of enableVisualizationInIFrames: the results of the frame are left
\* out of the message.
enableVisualizationInIFramesWithoutResults(ctx, visualizationType, frame, frameResults, configId) ==
    [ctx EXCEPT !.sent = Append(@, createFrameRequestMessage(frame,
        Message(visualizationType, TRUE, configId, NoResults, ctx.featureFlagStoreData)))]

\* DrawingController.enableVisualizationInIFrames
enableVisualizationInIFrames(ctx, visualizationType, frame, frameResults, configId) ==
    [ctx EXCEPT !.sent = Append(@, createFrameRequestMessage(frame,
        Message(visualizationType, TRUE, configId, frameResults, ctx.featureFlagStoreData)))]

\* Mutant of the loop of enableVisualization: the drawer is looked up before
\* the visibility interval is started.
RECURSIVE enableByFramesLooksUpFirst(_, _, _, _, _)
enableByFramesLooksUpFirst(ctx, visualizationType, elementResultsByFrames, configId, pos) ==
    IF ctx.threw \/ pos > Len(elementResultsByFrames) THEN ctx
    ELSE LET resultsForFrame == elementResultsByFrames[pos]
             next ==
                IF resultsForFrame.frame = NullFrame
                THEN IF ctx.featureFlagStoreData = Undefined
                        \/ configId \notin DOMAIN ctx.drawers THEN Throw(ctx)
                     ELSE enableVisualizationInCurrentFrame(
                            IF ctx.featureFlagStoreData = FlagsOn
                            THEN [ctx EXCEPT !.intervals =
                                    createVisibilityCheckerInterval(@, configId),
                                             !.started = Append(@, configId)]
                            ELSE ctx,
                            Results(resultsForFrame.elementResults), configId)
                ELSE enableVisualizationInIFrames(ctx, visualizationType,
                        resultsForFrame.frame, Results(resultsForFrame.elementResults), configId)
         IN enableByFramesLooksUpFirst(next, visualizationType, elementResultsByFrames,
                                       configId, pos + 1)

\* The loop of enableVisualization over the partitions, from position pos.
RECURSIVE enableByFrames(_, _, _, _, _)
enableByFrames(ctx, visualizationType, elementResultsByFrames, configId, pos) ==
    IF ctx.threw \/ pos > Len(elementResultsByFrames) THEN ctx
    ELSE LET resultsForFrame == elementResultsByFrames[pos]
             next ==
                IF resultsForFrame.frame = NullFrame
                THEN IF ctx.featureFlagStoreData = Undefined THEN Throw(ctx)
                     ELSE enableVisualizationInCurrentFrame(
                            IF ctx.featureFlagStoreData = FlagsOn
                            THEN [ctx EXCEPT !.intervals =
                                    createVisibilityCheckerInterval(@, configId),
                                             !.started = Append(@, configId)]
                            ELSE ctx,
                            Results(resultsForFrame.elementResults), configId)
                ELSE enableVisualizationInIFrames(ctx, visualizationType,
                        resultsForFrame.frame, Results(resultsForFrame.elementResults), configId)
         IN enableByFrames(next, visualizationType, elementResultsByFrames, configId, pos + 1)

\* The loop of enableVisualization over every iframe of the document.
RECURSIVE enableAllFrames(_, _, _, _, _)
enableAllFrames(ctx, visualizationType, frames, configId, pos) ==
    IF pos > Len(frames) THEN ctx
    ELSE enableAllFrames(
            enableVisualizationInIFrames(ctx, visualizationType, frames[pos], NoResults, configId),
            visualizationType, frames, configId, pos + 1)

\* Mutant of enableVisualization: with data, the current frame is drawn with
\* an empty list when no partition is its own.
enableVisualizationAlwaysDraws(ctx, f, visualizationType, elementResultsByFrames, configId) ==
    IF elementResultsByFrames.present
    THEN LET looped == enableByFrames(ctx, visualizationType, elementResultsByFrames.items,
                                      configId, 1) IN
         IF looped.threw
            \/ \E i \in 1..Len(elementResultsByFrames.items) :
                  elementResultsByFrames.items[i].frame = NullFrame
         THEN looped
         ELSE enableVisualizationInCurrentFrame(looped, Results(<<>>), configId)
    ELSE LET drawn == enableVisualizationInCurrentFrame(ctx, NoResults, configId) IN
         IF drawn.threw THEN drawn
         ELSE enableAllFrames(drawn, visualizationType, getAllFrames(f), configId, 1)

\* Mutant of enableVisualization: without data, the iframes are sent to but
\* the current frame is not drawn.
enableVisualizationIFramesOnly(ctx, f, visualizationType, elementResultsByFrames, configId) ==
    IF elementResultsByFrames.present
    THEN enableByFrames(ctx, visualizationType, elementResultsByFrames.items, configId, 1)
    ELSE enableAllFrames(ctx, visualizationType, getAllFrames(f), configId, 1)

\* DrawingController.enableVisualization in frame f
enableVisualization(ctx, f, visualizationType, elementResultsByFrames, configId) ==
    IF elementResultsByFrames.present
    THEN enableByFrames(ctx, visualizationType, elementResultsByFrames.items, configId, 1)
    ELSE LET drawn == enableVisualizationInCurrentFrame(ctx, NoResults, configId) IN
         IF drawn.threw THEN drawn
         ELSE enableAllFrames(drawn, visualizationType, getAllFrames(f), configId, 1)

\* Mutant of disableVisualizationInCurrentFrame: the layout of every drawer of
\* the frame is erased.
disableVisualizationInCurrentFrameErasesAll(ctx, configId) ==
    IF configId \notin DOMAIN ctx.drawers THEN Throw(ctx)
    ELSE [ctx EXCEPT !.drawers = [id \in DOMAIN ctx.drawers |-> eraseLayout(ctx.drawers[id])]]

\* Mutant of disableVisualizationInCurrentFrame: erasing a drawer that was
\* never initialized raises.
disableVisualizationInCurrentFrameRaisesWhenIdle(ctx, configId) ==
    IF configId \notin DOMAIN ctx.drawers \/ ~ctx.drawers[configId].initialized
    THEN Throw(ctx)
    ELSE [ctx EXCEPT !.drawers[configId] = eraseLayout(@)]

\* DrawingController.disableVisualizationInCurrentFrame
disableVisualizationInCurrentFrame(ctx, configId) ==
    IF configId \notin DOMAIN ctx.drawers THEN Throw(ctx)
    ELSE [ctx EXCEPT !.drawers[configId] = eraseLayout(@)]

\* DrawingController.disableVisualizationInIFrames in frame f (the elements of
\* the node list are never null, so every one is sent to).
RECURSIVE disableFrames(_, _, _, _, _)
disableFrames(ctx, visualizationType, frames, configId, i) ==
    IF i > Len(frames) THEN ctx
    ELSE disableFrames(
            [ctx EXCEPT !.sent = Append(@, createFrameRequestMessage(frames[i],
                Message(visualizationType, FALSE, configId, NoResults, Undefined)))],
            visualizationType, frames, configId, i + 1)

\* Mutant of disableVisualizationInIFrames: the loop skips the first iframe.
disableVisualizationInIFramesSkipsFirst(ctx, f, visualizationType, configId) ==
    disableFrames(ctx, visualizationType, getAllFrames(f), configId, 2)

disableVisualizationInIFrames(ctx, f, visualizationType, configId) ==
    disableFrames(ctx, visualizationType, getAllFrames(f), configId, 1)

\* Mutant of disableVisualization: an iframe without content window makes the
\* call raise once the current frame is erased.
disableVisualizationRaisesOnDetached(ctx, f, visualizationType, configId) ==
    LET erased == disableVisualizationInCurrentFrame(ctx, configId) IN
    IF erased.threw THEN erased
    ELSE IF \E x \in Range(getAllFrames(f)) : ~contentWindow[x] THEN Throw(erased)
    ELSE LET forwarded == disableVisualizationInIFrames(erased, f, visualizationType, configId)
         IN [forwarded EXCEPT !.intervals = clearVisibilityCheck(@, configId)]

\* Mutant of disableVisualization: the visibility check is not cleared.
disableVisualizationKeepsInterval(ctx, f, visualizationType, configId) ==
    LET erased == disableVisualizationInCurrentFrame(ctx, configId) IN
    IF erased.threw THEN erased
    ELSE disableVisualizationInIFrames(erased, f, visualizationType, configId)

\* DrawingController.disableVisualization in frame f
disableVisualization(ctx, f, visualizationType, configId) ==
    LET erased == disableVisualizationInCurrentFrame(ctx, configId) IN
    IF erased.threw THEN erased
    ELSE LET forwarded == disableVisualizationInIFrames(erased, f, visualizationType, configId)
         IN [forwarded EXCEPT !.intervals = clearVisibilityCheck(@, configId)]

\* Mutant of processRequest: the snapshot of an earlier request is kept when
\* there is one.
processRequestKeepsSnapshot(ctx, f, message) ==
    LET this == IF ctx.featureFlagStoreData # Undefined THEN ctx
                ELSE [ctx EXCEPT !.featureFlagStoreData = message.featureFlagStoreData] IN
    IF message.isEnabled
    THEN enableVisualization(this, f, message.visualizationType,
            IF message.elementResults.present
            THEN Results(splitResultsByFrame(f, message.elementResults.items))
            ELSE NoResults,
            message.configId)
    ELSE disableVisualization(this, f, message.visualizationType, message.configId)

\* DrawingController.processRequest in frame f.  An array is truthy even when
\* empty, so only an absent elementResults takes the no-data branch.
processRequest(ctx, f, message) ==
    LET this == [ctx EXCEPT !.featureFlagStoreData = message.featureFlagStoreData] IN
    IF message.isEnabled
    THEN enableVisualization(this, f, message.visualizationType,
            IF message.elementResults.present
            THEN Results(splitResultsByFrame(f, message.elementResults.items))
            ELSE NoResults,
            message.configId)
    ELSE disableVisualization(this, f, message.visualizationType, message.configId)

\* Mutant of invokeMethodIfExists: the method is invoked without the test.
invokeMethodUnchecked(ctx, method, data) ==
    [ctx EXCEPT !.responded = Append(@, data)]

\* DrawingController.invokeMethodIfExists(method, null)
invokeMethodIfExists(ctx, method, data) ==
    IF method THEN [ctx EXCEPT !.responded = Append(@, data)] ELSE ctx

\* Mutant of onTriggerVisualization: the message is handled in the frame but
\* not forwarded to its iframes.
onTriggerVisualizationLocalOnly(ctx, f, result, responder) ==
    LET done == processRequest(ctx, f, result) IN
    IF done.threw THEN done
    ELSE invokeMethodIfExists([done EXCEPT !.sent = <<>>], responder, "null")

\* DrawingController.onTriggerVisualization in frame f; responder is TRUE when
\* the frame communicator supplied a response callback.
onTriggerVisualization(ctx, f, result, responder) ==
    LET handled == processRequest(ctx, f, result) IN
    IF handled.threw THEN handled
    ELSE invokeMethodIfExists(handled, responder, "null")

\* Mutant of dispose: the handler is unsubscribed from the command as well.
disposeUnsubscribes(ctx) ==
    [ctx EXCEPT !.drawers = [id \in DOMAIN ctx.drawers |-> eraseLayout(ctx.drawers[id])],
                !.subscribed = FALSE]

\* Mutant of dispose: only the drawer of the first visualization is erased.
disposeFirstDrawerOnly(ctx) ==
    [ctx EXCEPT !.drawers["Issues"] = eraseLayout(@)]

\* Mutant of dispose: the visibility checks are cleared as well.
disposeClearsIntervals(ctx) ==
    [ctx EXCEPT !.drawers = [id \in DOMAIN ctx.drawers |-> eraseLayout(ctx.drawers[id])],
                !.intervals = [id \in DOMAIN ctx.intervals |-> 0]]

\* DrawingController.dispose
dispose(ctx) ==
    [ctx EXCEPT !.drawers = [id \in DOMAIN ctx.drawers |-> eraseLayout(ctx.drawers[id])]]

---------------------------------------------------------------------------
(* FrameCommunicator *)

\* FrameCommunicator.sendMessage: posts the request to the content window of
\* its iframe; a no-op when the iframe has none.
sendMessage(net, request) ==
    IF contentWindow[request.frame] THEN net (+) SetToBag({request}) ELSE net

RECURSIVE sendAll(_, _)
sendAll(net, requests) ==
    IF requests = <<>> THEN net
    ELSE sendAll(sendMessage(net, Head(requests)), Tail(requests))

---------------------------------------------------------------------------
(* Requests of the host *)

\* The scan results of the page: an instance with unset flags in the first
\* iframe, a shown and a hidden instance in the top document, and an instance
\* with both flags set in the second frame.
PageResults ==
    << Instance(1, F1, Unset, Unset), Instance(2, Top, Unset, Unset),
       Instance(3, Top, False, Unset), Instance(4, F2, True, True) >>

\* The result lists the host sends: the whole page, the second frame alone
\* (nothing for the top document), and an empty list.
ElementResultInputs == {PageResults, <<PageResults[4]>>, <<>>}

\* The well-formed requests: a registered configId with its visualization
\* type, a feature-flag snapshot on every enable.
Requests ==
    {Message(c[1], FALSE, c[2], NoResults, Undefined) : c \in Configured}
    \cup {Message(c[1], TRUE, c[2], NoResults, ff) : c \in Configured, ff \in {FlagsOn, FlagsOff}}
    \cup {Message(c[1], TRUE, c[2], Results(er), ff) :
            c \in Configured, er \in ElementResultInputs, ff \in {FlagsOn, FlagsOff}}

---------------------------------------------------------------------------
(* The state machine *)

NoMessage == Message("(none)", FALSE, "(none)", NoResults, Undefined)

Init ==
    /\ \E doc \in Documents : iframes = doc.iframes /\ contentWindow = doc.contentWindow
    /\ drawers = [f \in Frames |-> setupDrawers]
    /\ intervals = [f \in Frames |-> [id \in AllConfigIds |-> 0]]
    /\ featureFlagStoreData = [f \in Frames |-> Undefined]
    /\ subscribed = [f \in Frames |-> TRUE]
    /\ network = EmptyBag
    /\ calls = 0
    /\ disposed = {}
    /\ deliveries = [f \in Frames |-> 0]
    /\ last = [op |-> "none", frame |-> Top, message |-> NoMessage, responder |-> FALSE,
               sent |-> <<>>, started |-> <<>>, responded |-> <<>>, threw |-> FALSE]

\* The effect of one call of frame f's controller that ended in context ctx.
Commit(f, ctx, op, message, responder, net) ==
    /\ drawers' = [drawers EXCEPT ![f] = ctx.drawers]
    /\ intervals' = [intervals EXCEPT ![f] = ctx.intervals]
    /\ featureFlagStoreData' = [featureFlagStoreData EXCEPT ![f] = ctx.featureFlagStoreData]
    /\ subscribed' = [subscribed EXCEPT ![f] = ctx.subscribed]
    /\ network' = sendAll(net, ctx.sent)
    /\ last' = [op |-> op, frame |-> f, message |-> message, responder |-> responder,
                sent |-> ctx.sent, started |-> ctx.started,
                responded |-> ctx.responded, threw |-> ctx.threw]
    /\ UNCHANGED <<iframes, contentWindow>>

\* Mutant of Request: the call waits until every request forwarded earlier was
\* handled by its iframe.
RequestAwaitsIFrames(message) ==
    /\ network = EmptyBag
    /\ calls < MaxCalls
    /\ calls' = calls + 1
    /\ UNCHANGED <<disposed, deliveries>>
    /\ Commit(Top, processRequest(Context(Top), Top, message), "processRequest",
              message, FALSE, network)

\* The host calls processRequest on the top frame's controller.
Request(message) ==
    /\ calls < MaxCalls
    /\ calls' = calls + 1
    /\ UNCHANGED <<disposed, deliveries>>
    /\ Commit(Top, processRequest(Context(Top), Top, message), "processRequest",
              message, FALSE, network)

\* The frame communicator of a frame hands a request in flight to the handler
\* subscribed to 'insights.draw', with or without a response callback.
Deliver(request, responder) ==
    /\ BagIn(request, network)
    /\ subscribed[request.frame]
    /\ deliveries' = [deliveries EXCEPT ![request.frame] = @ + 1]
    /\ UNCHANGED <<calls, disposed>>
    /\ Commit(request.frame,
              onTriggerVisualization(Context(request.frame), request.frame,
                                     request.message, responder),
              "onTriggerVisualization", request.message, responder,
              network (-) SetToBag({request}))

\* The host disposes the controller of a frame.
Dispose(f) ==
    /\ calls < MaxCalls
    /\ calls' = calls + 1
    /\ disposed' = disposed \cup {f}
    /\ UNCHANGED deliveries
    /\ Commit(f, dispose(Context(f)), "dispose", NoMessage, FALSE, network)

Next ==
    \/ \E message \in Requests : Request(message)
    \/ \E request \in BagToSet(network), responder \in BOOLEAN : Deliver(request, responder)
    \/ \E f \in {g \in Frames : g = Top \/ contentWindow[g]} : Dispose(f)

Spec == Init /\ [][Next]_vars

---------------------------------------------------------------------------
(* Requests with an unregistered configId *)

\* Requests whose configId may be one that no configuration produces.
AnyRequests ==
    LET configs == {<<"Issues", "Issues">>, <<"Issues", UnknownConfigId>>}
        results == {NoResults, Results(PageResults), Results(<<PageResults[4]>>)}
    IN {Message(c[1], FALSE, c[2], NoResults, Undefined) : c \in configs}
       \cup {Message(c[1], TRUE, c[2], er, ff) :
                c \in configs, er \in results, ff \in {FlagsOn, FlagsOff}}

NextAny ==
    \/ \E message \in AnyRequests : Request(message)
    \/ \E request \in BagToSet(network), responder \in BOOLEAN : Deliver(request, responder)
    \/ \E f \in {g \in Frames : g = Top \/ contentWindow[g]} : Dispose(f)

SpecAny == Init /\ [][NextAny]_vars

---------------------------------------------------------------------------
(* The visibility filter on every list of flags *)

\* A frame that is no longer in the document.
Detached == "detached"

\* The scan results of the page and an instance whose target frame is gone.
StaleResults == PageResults \o <<Instance(5, Detached, Unset, Unset)>>

\* The list of n instances of frame f's document, the i-th with id i and the
\* flags fl[i].
FlagList(f, n, fl) == [i \in 1..n |-> Instance(i, f, fl[i][1], fl[i][2])]

\* One enable with data on the top frame: a list of up to MaxLen instances of
\* the top document with any combination of the two tri-state flags, or one
\* of the result lists of the page, or the results of the page with a stale
\* instance.
FilterRequest ==
    /\ calls = 0
    /\ \E c \in Configured, ff \in {FlagsOn, FlagsOff} :
        \/ \E n \in 0..MaxLen : \E fl \in [1..n -> TriState \X TriState] :
              Request(Message(c[1], TRUE, c[2], Results(FlagList(Top, n, fl)), ff))
        \/ \E er \in ElementResultInputs \cup {StaleResults} :
              Request(Message(c[1], TRUE, c[2], Results(er), ff))

\* That enable, and the deliveries it leads to.
NextFilter ==
    \/ FilterRequest
    \/ \E request \in BagToSet(network), responder \in BOOLEAN : Deliver(request, responder)

SpecFilter == Init /\ [][NextFilter]_vars

---------------------------------------------------------------------------
(* One command at a time, every request delivered *)

\* The commands of the host: for every configuration a disable, an enable
\* without data, and an enable with the results of the page and the
\* instance-visibility flag set.
LiveRequests ==
    {Message(c[1], FALSE, c[2], NoResults, Undefined) : c \in Configured}
    \cup {Message(c[1], TRUE, c[2], NoResults, FlagsOff) : c \in Configured}
    \cup {Message(c[1], TRUE, c[2], Results(PageResults), FlagsOn) : c \in Configured}

\* The host calls processRequest once the requests of its previous call have
\* all been handled.
Command(message) ==
    /\ network = EmptyBag
    /\ Request(message)

NextLive ==
    \/ \E message \in LiveRequests : Command(message)
    \/ \E request \in BagToSet(network), responder \in BOOLEAN : Deliver(request, responder)

\* Every request posted to a content window is eventually handed to the
\* handler of its frame.
Fairness ==
    WF_vars(\E request \in BagToSet(network), responder \in BOOLEAN : Deliver(request, responder))

SpecLive == Init /\ [][NextLive]_vars /\ Fairness

---------------------------------------------------------------------------
(* An enable, then a disable of the same configId *)

\* The host enables a visualization on the top frame: without data, or with
\* the results of the page (either way the top frame's drawer is initialized).
ToggleOn ==
    /\ calls = 0
    /\ \E c \in Configured, ff \in {FlagsOn, FlagsOff}, er \in {NoResults, Results(PageResults)} :
          Request(Message(c[1], TRUE, c[2], er, ff))

\* The host disables the visualization it enabled (the one whose drawer the
\* top frame initialized), whether or not the requests of the enable have been
\* handled.
ToggleOff ==
    /\ calls = 1
    /\ \E c \in Configured :
          /\ drawers[Top][c[2]].initialized
          /\ Request(Message(c[1], FALSE, c[2], NoResults, Undefined))

NextToggle ==
    \/ ToggleOn
    \/ ToggleOff
    \/ \E request \in BagToSet(network), responder \in BOOLEAN : Deliver(request, responder)

SpecToggle == Init /\ [][NextToggle]_vars

\* The results of a later scan of the page: the shown instance of the top
\* document is hidden now, its hidden one is shown, and the first iframe has
\* a new instance.
LaterResults ==
    << Instance(2, Top, False, Unset), Instance(3, Top, Unset, Unset),
       Instance(6, F1, True, True) >>

\* The host re-enables one visualization with the results of successive
\* scans, with or without data, and disables it.
ReenableRequests ==
    {Message("Issues", FALSE, "Issues", NoResults, Undefined)}
    \cup {Message("Issues", TRUE, "Issues", er, ff) :
            er \in {NoResults, Results(PageResults), Results(LaterResults)},
            ff \in {FlagsOn, FlagsOff}}

NextReenable ==
    \/ \E message \in ReenableRequests : Request(message)
    \/ \E request \in BagToSet(network), responder \in BOOLEAN : Deliver(request, responder)
    \/ \E f \in {g \in Frames : g = Top \/ contentWindow[g]} : Dispose(f)

SpecReenable == Init /\ [][NextReenable]_vars

---------------------------------------------------------------------------
(* Vocabulary of the properties *)

\* The current state was produced by frame f's processRequest (called by the
\* host or by the subscribed handler) on a message for configId c.
Handled(f, c) ==
    /\ last.op \in {"processRequest", "onTriggerVisualization"}
    /\ last.frame = f
    /\ last.message.configId = c

HandledEnable(f, c) == Handled(f, c) /\ last.message.isEnabled
HandledDisable(f, c) == Handled(f, c) /\ ~last.message.isEnabled

\* Some instance of the list has its target in frame f's own document.
HasCurrentFrameResults(f, items) == \E i \in 1..Len(items) : items[i].owner = f

LayoutDrawn(f, c) == drawers[f][c].isLayoutDrawn
IntervalRunning(f, c) == intervals[f][c] > 0

\* The requests of a call that went to iframe x.
SentTo(x) == SelectSeq(last.sent, LAMBDA request : request.frame = x)

---------------------------------------------------------------------------
(* C1 *)

\* C1 as stated: in any frame and for any registered configId, nothing is drawn
\* and no interval runs before any request; right after processRequest handles
\* an enable for the configId its layout is drawn; right after it handles a
\* disable the layout is erased and no interval runs.
C1_EveryEnableDraws ==
    \A f \in Frames, c \in RegisteredConfigIds :
        /\ last.op = "none" => ~LayoutDrawn(f, c) /\ ~IntervalRunning(f, c)
        /\ HandledEnable(f, c) => LayoutDrawn(f, c)
        /\ HandledDisable(f, c) => ~LayoutDrawn(f, c) /\ ~IntervalRunning(f, c)

\* C1, amended: as above, but only an enable without elementResults, or one
\* whose elementResults hold an instance of the frame's own document, leaves
\* the layout drawn (an enable with results for other frames only, or with an
\* empty list, does not touch the current frame's drawer).
C1_ConfigStateMachine ==
    \A f \in Frames, c \in RegisteredConfigIds :
        /\ last.op = "none" =>
              ~LayoutDrawn(f, c) /\ ~IntervalRunning(f, c) /\ ~drawers[f][c].initialized
        /\ ( /\ HandledEnable(f, c)
             /\ \/ ~last.message.elementResults.present
                \/ HasCurrentFrameResults(f, last.message.elementResults.items) )
              => LayoutDrawn(f, c)
        /\ HandledDisable(f, c) => ~LayoutDrawn(f, c) /\ ~IntervalRunning(f, c)

\* The top frame handled a disable and then an enable of the same configId: its
\* layout is drawn again while the disable is still on its way to an iframe.
C1_Witness ==
    \E c \in RegisteredConfigIds :
        /\ HandledEnable(Top, c)
        /\ LayoutDrawn(Top, c)
        /\ \E request \in BagToSet(network) :
              ~request.message.isEnabled /\ request.message.configId = c

---------------------------------------------------------------------------
(* C2 *)

\* C2: processing a disable in a frame erases the frame's drawer of the
\* message's configId, leaves no visibility interval for it, and hands the frame
\* communicator exactly one disable (isEnabled false, same configId and
\* visualizationType, no elementResults) for every iframe of the frame's
\* document and nothing else, whatever was sent to those iframes before.
C2_DisableFanOut ==
    \A f \in Frames, c \in RegisteredConfigIds :
        HandledDisable(f, c) =>
            /\ ~LayoutDrawn(f, c)
            /\ ~IntervalRunning(f, c)
            /\ Len(last.sent) = Len(iframes[f])
            /\ \A x \in Range(iframes[f]) :
                  /\ Len(SentTo(x)) = 1
                  /\ SentTo(x)[1].command = triggerVisualizationCommand
                  /\ ~SentTo(x)[1].message.isEnabled
                  /\ SentTo(x)[1].message.configId = c
                  /\ SentTo(x)[1].message.visualizationType = last.message.visualizationType
                  /\ ~SentTo(x)[1].message.elementResults.present

\* The first thing the top frame of a page with two iframes ever handles is a
\* disable: both iframes are sent one, though neither was ever sent an enable.
C2_Witness ==
    /\ calls = 1
    /\ \E c \in RegisteredConfigIds : HandledDisable(Top, c)
    /\ Len(iframes[Top]) = 2
    /\ Len(last.sent) = 2

---------------------------------------------------------------------------
(* C3 *)

\* C3: processing an enable without elementResults in a frame whose document
\* has N iframes initializes the frame's drawer with no data, draws it, and
\* hands the frame communicator exactly N enables without data, one per
\* iframe, whether or not the iframes had results before.
C3_EnableWithoutDataFanOut ==
    \A f \in Frames, c \in RegisteredConfigIds :
        (HandledEnable(f, c) /\ ~last.message.elementResults.present) =>
            /\ drawers[f][c].initialized
            /\ ~drawers[f][c].data.present
            /\ LayoutDrawn(f, c)
            /\ Len(last.sent) = Len(iframes[f])
            /\ \A x \in Range(iframes[f]) :
                  /\ Len(SentTo(x)) = 1
                  /\ SentTo(x)[1].message.isEnabled
                  /\ SentTo(x)[1].message.configId = c
                  /\ SentTo(x)[1].message.visualizationType = last.message.visualizationType
                  /\ ~SentTo(x)[1].message.elementResults.present

\* The top frame of a page with two iframes handles an enable without data
\* after an enable whose results left its first iframe without any: the drawer
\* of the top frame holds no data and both iframes are sent an enable.
C3_Witness ==
    /\ calls = 2
    /\ \E c \in RegisteredConfigIds :
          /\ HandledEnable(Top, c)
          /\ ~last.message.elementResults.present
          /\ ~drawers[Top][c].data.present
          /\ ~drawers[F1][c].initialized
          /\ \E request \in BagToSet(network) :
                /\ request.frame = F2
                /\ request.message.configId = c
                /\ request.message.elementResults.present
    /\ Len(iframes[Top]) = 2
    /\ Len(last.sent) = 2

---------------------------------------------------------------------------
(* C4 *)

\* The instances of a list whose target lies in iframe x or in a frame nested
\* in it, in their order.
ResultsUnder(x, items) == SelectSeq(items, LAMBDA inst : inst.owner \in FramesUnder(x))

\* C4: processing an enable with elementResults hands the frame communicator,
\* for every partition whose frame is not null, exactly one enable for that
\* iframe with exactly the partition's results and the configId,
\* visualizationType and featureFlagStoreData of the message; nothing is sent
\* to an iframe that owns no partition, and every instance sent to an iframe
\* has its target in that iframe or in a frame nested in it.
C4_EnableWithDataFanOut ==
    \A f \in Frames, c \in RegisteredConfigIds :
        (HandledEnable(f, c) /\ last.message.elementResults.present) =>
            LET items == last.message.elementResults.items
                parts == splitResultsByFrame(f, items)
            IN
            /\ \A i \in 1..Len(parts) :
                  parts[i].frame # NullFrame =>
                      SentTo(parts[i].frame) =
                          << createFrameRequestMessage(parts[i].frame,
                                Message(last.message.visualizationType, TRUE, c,
                                        Results(parts[i].elementResults),
                                        last.message.featureFlagStoreData)) >>
            /\ \A i \in 1..Len(last.sent) :
                  /\ \E j \in 1..Len(parts) : parts[j].frame = last.sent[i].frame
                  /\ last.sent[i].frame \in Range(iframes[f])
                  /\ \A inst \in Range(last.sent[i].message.elementResults.items) :
                        inst.owner \in FramesUnder(last.sent[i].frame)
            /\ \A x \in Range(iframes[f]) :
                  ResultsUnder(x, items) = <<>> => SentTo(x) = <<>>

\* The top frame of a page with two iframes handled an enable whose results
\* belong to the second iframe only: one request was sent, to that iframe.
C4_Witness ==
    \E c \in RegisteredConfigIds :
        /\ HandledEnable(Top, c)
        /\ last.message.elementResults.present
        /\ Len(iframes[Top]) = 2
        /\ Len(last.sent) = 1
        /\ last.sent[1].frame = F2
        /\ Len(last.sent[1].message.elementResults.items) = 1

---------------------------------------------------------------------------
(* C5 *)

\* The position of an instance in a list that holds it once.
Pos(items, inst) == CHOOSE k \in 1..Len(items) : items[k] = inst

Shown(inst) == inst.isVisible # False /\ inst.isVisualizationEnabled # False

\* The list of the visibility-filter example.
FilterExample ==
    FlagList(Top, 4, << <<False, Unset>>, <<Unset, False>>, <<Unset, Unset>>, <<True, True>> >>)

\* C5: on an enable with data, the instances the current frame's drawer is
\* initialized with and draws are exactly the instances of the message that
\* belong to the frame's own document and have neither isVisible nor
\* isVisualizationEnabled false (an unset flag shows), in their original order;
\* of [{isVisible:false}, {isVisualizationEnabled:false}, {},
\* {isVisible:true, isVisualizationEnabled:true}] exactly the last two.
C5_VisibilityFilter ==
    \A f \in Frames, c \in RegisteredConfigIds :
        ( /\ HandledEnable(f, c)
          /\ last.message.elementResults.present
          /\ HasCurrentFrameResults(f, last.message.elementResults.items) ) =>
            LET items == last.message.elementResults.items
                data == drawers[f][c].data
            IN  /\ drawers[f][c].initialized
                /\ LayoutDrawn(f, c)
                /\ data.present
                /\ \A i \in 1..Len(data.items) :
                      /\ data.items[i] \in Range(items)
                      /\ data.items[i].owner = f
                      /\ Shown(data.items[i])
                /\ \A i \in 1..Len(items) :
                      (items[i].owner = f /\ Shown(items[i])) => items[i] \in Range(data.items)
                /\ \A i, j \in 1..Len(data.items) :
                      i < j => Pos(items, data.items[i]) < Pos(items, data.items[j])
                /\ items = FilterExample => data.items = <<FilterExample[3], FilterExample[4]>>

\* The top frame handled an enable with the example list and its drawer holds
\* two instances.
C5_Witness ==
    \E c \in RegisteredConfigIds :
        /\ HandledEnable(Top, c)
        /\ last.message.elementResults = Results(FilterExample)
        /\ Len(drawers[Top][c].data.items) = 2

---------------------------------------------------------------------------
(* C6 *)

\* C6: right after dispose() no registered configId of the frame has a drawn
\* layout, whatever was drawn before.
C6_DisposeErasesAll ==
    last.op = "dispose" =>
        \A c \in RegisteredConfigIds : ~LayoutDrawn(last.frame, c)

\* The host enabled a visualization on the top frame and then disposed its
\* controller: the drawer that was initialized and drawn is erased.
C6_Witness ==
    /\ last.op = "dispose"
    /\ last.frame = Top
    /\ calls = 2
    /\ \E c \in RegisteredConfigIds : drawers[Top][c].initialized /\ ~LayoutDrawn(Top, c)

---------------------------------------------------------------------------
(* C7 *)

\* C7 as stated: once dispose() has run in a frame, no configId of that frame
\* has a drawn layout or a running visibility interval, in any later state.
C7_DisposeIsTerminal ==
    \A f \in disposed, c \in RegisteredConfigIds :
        ~LayoutDrawn(f, c) /\ ~IntervalRunning(f, c)

\* C7, amended: dispose() erases the layout of every registered configId of
\* the frame and leaves the frame's visibility intervals as they are; it is not
\* terminal, but after it a configId of the frame gets a drawn layout only when
\* the frame handles an enable message for that configId.
C7_DisposeErasesUntilEnabled ==
    [][ \A f \in Frames, c \in RegisteredConfigIds :
          /\ (last'.op = "dispose" /\ last'.frame = f) =>
                ~LayoutDrawn(f, c)' /\ intervals'[f] = intervals[f]
          /\ (f \in disposed /\ ~LayoutDrawn(f, c) /\ LayoutDrawn(f, c)') =>
                HandledEnable(f, c)' ]_vars

\* A controller was disposed while a visibility interval of its frame was
\* running: the interval still runs.
C7_Witness ==
    /\ last.op = "dispose"
    /\ \E c \in RegisteredConfigIds :
          /\ IntervalRunning(last.frame, c)
          /\ drawers[last.frame][c].initialized
          /\ ~LayoutDrawn(last.frame, c)

---------------------------------------------------------------------------
(* C8 *)

\* C8: a disable for a registered configId that has no drawn layout and no
\* visibility interval in the frame (never enabled there, or already disabled)
\* raises nothing and leaves the drawers and the intervals of the frame as they
\* were.
C8_IdempotentDisable ==
    [][ \A f \in Frames, c \in RegisteredConfigIds :
          (HandledDisable(f, c)' /\ ~LayoutDrawn(f, c) /\ ~IntervalRunning(f, c)) =>
              /\ ~last'.threw
              /\ drawers'[f] = drawers[f]
              /\ intervals'[f] = intervals[f] ]_vars

\* A frame handled a disable for a configId whose drawer was never initialized.
C8_Witness ==
    \E f \in Frames, c \in RegisteredConfigIds :
        /\ HandledDisable(f, c)
        /\ ~last.threw
        /\ ~drawers[f][c].initialized
        /\ ~LayoutDrawn(f, c)
        /\ ~IntervalRunning(f, c)

---------------------------------------------------------------------------
(* C9 *)

---------------------------------------------------------------------------
(* C10 *)

\* C10: while a frame handles an enable with data, a visibility-check interval
\* is started for the results of its own document if and only if the
\* instance-visibility flag is set in the featureFlagStoreData of that message,
\* whatever the snapshot of an earlier request was.
C10_IntervalFollowsMessageFlag ==
    \A f \in Frames, c \in RegisteredConfigIds :
        (HandledEnable(f, c) /\ last.message.elementResults.present) =>
            /\ last.started =
                  IF /\ HasCurrentFrameResults(f, last.message.elementResults.items)
                     /\ last.message.featureFlagStoreData = FlagsOn
                  THEN <<c>> ELSE <<>>
            /\ last.started # <<>> => IntervalRunning(f, c)

\* The top frame handled an enable with results of its own and the flag unset
\* while the interval of an earlier enable, whose flag was set, is running:
\* no interval was started.
C10_Witness ==
    \E c \in RegisteredConfigIds :
        /\ HandledEnable(Top, c)
        /\ last.message.elementResults.present
        /\ HasCurrentFrameResults(Top, last.message.elementResults.items)
        /\ last.message.featureFlagStoreData = FlagsOff
        /\ IntervalRunning(Top, c)
        /\ last.started = <<>>

---------------------------------------------------------------------------
(* C11 *)

\* C11: in every reachable state a frame has at most one active visibility-check
\* interval per configId; an enable that starts an interval for a configId
\* whose interval is already running leaves exactly one, and a disable leaves
\* none and raises nothing, whether or not an interval was running.
C11_OneIntervalPerConfigId ==
    \A f \in Frames, c \in RegisteredConfigIds :
        /\ intervals[f][c] \in {0, 1}
        /\ (HandledEnable(f, c) /\ last.started # <<>>) => intervals[f][c] = 1
        /\ HandledDisable(f, c) => intervals[f][c] = 0 /\ ~last.threw

\* The top frame handled the same enable with data twice, the
\* instance-visibility flag set both times and no disable in between (both
\* copies of the request forwarded to the first iframe are still in flight):
\* the second enable started an interval, and one interval runs.
C11_Witness ==
    \E c \in RegisteredConfigIds :
        /\ calls = 2
        /\ HandledEnable(Top, c)
        /\ last.message.featureFlagStoreData = FlagsOn
        /\ last.started = <<c>>
        /\ Len(SentTo(F1)) = 1
        /\ CopiesIn(SentTo(F1)[1], network) = 2
        /\ intervals[Top][c] = 1

---------------------------------------------------------------------------
(* C12 *)

\* The configIds the configurations produce: the identifier of every
\* visualization type that is not an assessment, and the identifier of every
\* test step of every assessment.
DerivedConfigIds ==
    {getIdentifier(t, NoStep) : t \in {u \in VisualizationTypes : ~isValidType(u)}}
    \cup UNION { {getIdentifier(t, step) : step \in getStepMap(t)} :
                 t \in {u \in VisualizationTypes : isValidType(u)} }

\* C12: after initialize() the drawer registry of a frame holds a drawer, idle
\* and with no layout, for exactly the configIds derived from every
\* visualization type and every test step of every assessment; in every later
\* state the registered configIds are the same: processRequest and dispose
\* add and remove nothing.
C12_RegistryIsFixed ==
    \A f \in Frames :
        /\ DOMAIN drawers[f] = DerivedConfigIds
        /\ last.op = "none" => \A c \in DerivedConfigIds : drawers[f][c] = NewDrawer

\* The controller of the top frame was disposed and then handled a request for
\* a configId that is not registered: its registry holds the derived
\* configIds and no other.
C12_Witness ==
    /\ Top \in disposed
    /\ last.op = "processRequest"
    /\ last.message.configId \notin DerivedConfigIds
    /\ Cardinality(DOMAIN drawers[Top]) = 2
    /\ UnknownConfigId \notin DOMAIN drawers[Top]

---------------------------------------------------------------------------
(* C13 *)

\* The message handled last makes the frame look up the drawer of its
\* configId: a disable, an enable without elementResults, or an enable whose
\* elementResults hold an instance of the frame's own document.
LooksUpDrawer(f) ==
    \/ ~last.message.isEnabled
    \/ ~last.message.elementResults.present
    \/ HasCurrentFrameResults(f, last.message.elementResults.items)

\* C13 as stated: processRequest fails on every request, enable or disable,
\* whose configId is not in the drawer registry.
C13_UnknownConfigIdAlwaysFails ==
    \A f \in Frames, c \in AllConfigIds :
        (Handled(f, c) /\ c \notin DOMAIN drawers[f]) => last.threw

\* C13, amended: processRequest fails on a request whose configId is not in
\* the drawer registry exactly when the frame looks up the drawer (a disable,
\* an enable without elementResults, an enable with results of the frame's own
\* document), and then no responder is invoked and the registry is untouched;
\* a disable or an enable without elementResults fails before anything is
\* forwarded.  An enable whose elementResults hold nothing of the frame's own
\* document completes without raising.  A request with a registered configId
\* never fails.
C13_UnknownConfigIdFailsOnLookup ==
    \A f \in Frames, c \in AllConfigIds :
        Handled(f, c) =>
            /\ last.threw <=> (c \notin DOMAIN drawers[f] /\ LooksUpDrawer(f))
            /\ last.threw =>
                  /\ last.responded = <<>>
                  /\ (~last.message.isEnabled \/ ~last.message.elementResults.present)
                        => last.sent = <<>>

\* The top frame handled an enable for an unregistered configId whose results
\* hold instances of its own document after one of its first iframe: the call
\* raised after the request for the iframe was handed over.
C13_Witness ==
    /\ HandledEnable(Top, UnknownConfigId)
    /\ HasCurrentFrameResults(Top, last.message.elementResults.items)
    /\ last.threw
    /\ Len(last.sent) = 1
    /\ last.sent[1].frame = F1

---------------------------------------------------------------------------
(* C14 *)

\* C14: a request for an iframe that has no content window is handed to the
\* frame communicator like any other, raises nothing and is not delivered (no
\* request in flight targets such an iframe); the call goes on: every other
\* request it sends is in flight or was handled, a disable still sends to
\* every iframe and clears the interval, an enable with results of the frame's
\* own document still draws.
C14_SafeSend ==
    /\ \A request \in BagToSet(network) : contentWindow[request.frame]
    /\ \A f \in Frames, c \in RegisteredConfigIds :
          Handled(f, c) =>
              /\ ~last.threw
              /\ \A i \in 1..Len(last.sent) :
                    contentWindow[last.sent[i].frame] => BagIn(last.sent[i], network)
              /\ HandledDisable(f, c) =>
                    /\ Len(last.sent) = Len(iframes[f])
                    /\ ~LayoutDrawn(f, c) /\ ~IntervalRunning(f, c)
              /\ ( /\ HandledEnable(f, c)
                   /\ last.message.elementResults.present
                   /\ HasCurrentFrameResults(f, last.message.elementResults.items) )
                    => LayoutDrawn(f, c)

\* The first iframe of the top document has no content window.  The top frame
\* handled an enable with results for both iframes and for itself: both
\* requests were handed over, the layout is drawn, the request for the second
\* iframe is in flight and none is for the first.
C14_Witness ==
    \E c \in RegisteredConfigIds :
        /\ ~contentWindow[F1]
        /\ HandledEnable(Top, c)
        /\ Len(last.sent) = 2
        /\ last.sent[1].frame = F1
        /\ last.sent[1].message.elementResults.present
        /\ LayoutDrawn(Top, c)
        /\ BagIn(last.sent[2], network)
        /\ ~BagIn(last.sent[1], network)

---------------------------------------------------------------------------
(* C15 *)

Count(items, inst) == Cardinality({i \in 1..Len(items) : items[i] = inst})

IsPermutation(a, b) ==
    /\ Len(a) = Len(b)
    /\ \A inst \in Range(a) \cup Range(b) : Count(a, inst) = Count(b, inst)

\* The instances of the requests of a call, in the order they were sent.
RECURSIVE Forwarded(_)
Forwarded(sent) ==
    IF sent = <<>> THEN <<>>
    ELSE Head(sent).message.elementResults.items \o Forwarded(Tail(sent))

\* The instances frame f's drawer of configId c was given by the enable handled
\* last (none when the results hold nothing of the frame's own document, and
\* the drawer was not touched).
DrawnBy(f, c) ==
    IF HasCurrentFrameResults(f, last.message.elementResults.items)
    THEN drawers[f][c].data.items ELSE <<>>

\* The partitions of a list that hold an instance.
PartitionsOf(parts, inst) ==
    {i \in 1..Len(parts) : inst \in Range(parts[i].elementResults)}

\* C15 as stated: the instances drawn in the current frame plus those
\* forwarded to iframes by processRequest are a permutation of the
\* elementResults of the message.
C15_DrawnPlusForwardedIsInput ==
    \A f \in Frames, c \in RegisteredConfigIds :
        (HandledEnable(f, c) /\ last.message.elementResults.present) =>
            IsPermutation(DrawnBy(f, c) \o Forwarded(last.sent),
                          last.message.elementResults.items)

\* C15, amended: splitResultsByFrame places every instance whose target frame
\* is in the document in exactly one partition (frame:null or one iframe), no
\* instance twice, and drops an instance whose target frame is gone; the
\* instances given to the current frame's drawer are the instances of the
\* frame:null partition with neither flag false, and those plus the instances
\* forwarded to iframes are a permutation of the input without the dropped
\* instances and without the hidden or disabled instances of the frame's own
\* document.
C15_SplitThenFilter ==
    \A f \in Frames, c \in RegisteredConfigIds :
        (HandledEnable(f, c) /\ last.message.elementResults.present) =>
            LET items == last.message.elementResults.items
                parts == splitResultsByFrame(f, items)
            IN
            /\ \A i \in 1..Len(items) :
                  Cardinality(PartitionsOf(parts, items[i])) =
                      IF FrameOf(f, items[i]) = NoSuchFrame THEN 0 ELSE 1
            /\ \A i \in 1..Len(parts) : \A inst \in Range(parts[i].elementResults) :
                  Count(parts[i].elementResults, inst) = Count(items, inst)
            /\ \A i \in 1..Len(parts) :
                  parts[i].frame = NullFrame =>
                      DrawnBy(f, c) = SelectSeq(parts[i].elementResults, Shown)
            /\ IsPermutation(
                  DrawnBy(f, c) \o Forwarded(last.sent),
                  SelectSeq(items, LAMBDA inst :
                      /\ FrameOf(f, inst) # NoSuchFrame
                      /\ inst.owner = f => Shown(inst)))

\* The top frame handled an enable with the results of the page and a stale
\* instance: of the five instances one was given to its drawer and two were
\* forwarded.
C15_Witness ==
    \E c \in RegisteredConfigIds :
        /\ HandledEnable(Top, c)
        /\ last.message.elementResults = Results(StaleResults)
        /\ Len(DrawnBy(Top, c)) = 1
        /\ Len(Forwarded(last.sent)) = 2

---------------------------------------------------------------------------
(* C16 *)

\* C16: no call waits for another frame.  Whatever requests are in flight and
\* whatever the iframes have handled, the host's next processRequest can run;
\* a call that handled a message for a registered configId has
\* run to its end in that one step: it did not raise, every request it sent to
\* an iframe with a content window is in flight, and the responder, when there
\* is one, was invoked.
C16_NeverBlocks ==
    /\ calls < MaxCalls => ENABLED (\E message \in AnyRequests : Request(message))
    /\ \A f \in Frames, c \in RegisteredConfigIds :
          Handled(f, c) =>
              /\ ~last.threw
              /\ \A i \in 1..Len(last.sent) :
                    contentWindow[last.sent[i].frame] => BagIn(last.sent[i], network)
              /\ last.responded = IF last.responder THEN <<"null">> ELSE <<>>

\* The top frame of a page with two iframes completed its second
\* processRequest while the two requests of the first are still in flight and
\* no iframe has handled anything.
C16_Witness ==
    /\ calls = 2
    /\ last.op = "processRequest"
    /\ ~last.threw
    /\ Len(last.sent) = 2
    /\ BagCardinality(network) = 4
    /\ \A f \in Frames \ {Top} : drawers[f] = setupDrawers

---------------------------------------------------------------------------
(* C17 *)

\* C17: dispose() changes nothing except drawer layouts: the step erases the
\* layout of every drawer of the frame and leaves the rest of each drawer, the
\* visibility intervals, the feature-flag snapshot, the subscription to
\* 'insights.draw', the requests in flight and the other frames as they were;
\* every controller stays subscribed, so a message that arrives at a disposed
\* frame is handled like any other.
C17_DisposeOnlyErases ==
    [][ /\ \A f \in Frames : subscribed'[f]
        /\ last'.op = "dispose" =>
              /\ intervals' = intervals
              /\ featureFlagStoreData' = featureFlagStoreData
              /\ subscribed' = subscribed
              /\ network' = network
              /\ \A f \in Frames \ {last'.frame} : drawers'[f] = drawers[f]
              /\ \A c \in RegisteredConfigIds :
                    drawers'[last'.frame][c] = [drawers[last'.frame][c] EXCEPT !.isLayoutDrawn = FALSE]
        /\ \A f \in disposed, c \in RegisteredConfigIds :
              ( /\ last'.op = "onTriggerVisualization" /\ HandledEnable(f, c)'
                /\ ~last'.message.elementResults.present )
                  => LayoutDrawn(f, c)' /\ ~last'.threw ]_vars

\* The controller of the first iframe was disposed; an enable forwarded by the
\* top frame arrived afterwards and was handled: the layout of the iframe is
\* drawn and the responder was invoked.
C17_Witness ==
    \E c \in RegisteredConfigIds :
        /\ F1 \in disposed
        /\ last.op = "onTriggerVisualization"
        /\ HandledEnable(F1, c)
        /\ LayoutDrawn(F1, c)
        /\ last.responded = <<"null">>

---------------------------------------------------------------------------
(* C18 *)

\* The frames that run a controller the top frame can reach: the top frame and
\* the iframes, at any depth, that have a content window.
RECURSIVE ConnectedUnder(_)
ConnectedUnder(f) ==
    {f} \cup UNION {ConnectedUnder(x) : x \in {y \in Range(iframes[f]) : contentWindow[y]}}

Connected == ConnectedUnder(Top)

Quiescent == network = EmptyBag

\* The command being carried out is a disable (en false) or an enable without
\* data (en true) of configId c: the message handled last is that command or a
\* copy forwarded for it.
DataLess(c, en) ==
    /\ Handled(last.frame, c)
    /\ last.message.isEnabled = en
    /\ ~last.message.elementResults.present

\* Nothing is in flight, every iframe the top frame can reach has handled one
\* request per command of the host, and every frame has its layout for c drawn
\* (en true), or erased and its interval cleared (en false).
Settled(c, en) ==
    /\ Quiescent
    /\ \A f \in Connected \ {Top} : deliveries[f] = calls
    /\ \A f \in Connected :
          IF en THEN drawers[f][c].initialized /\ LayoutDrawn(f, c)
                ELSE ~LayoutDrawn(f, c) /\ ~IntervalRunning(f, c)

\* C18: in a static tree of frames in which every request sent is eventually
\* delivered, a disable or an enable without data processed by the top frame
\* is eventually handled by every descendant frame, exactly once (no frame
\* ever handles more requests than the host made calls, and each has handled
\* one per call when nothing is left in flight); then every frame of the tree
\* has its layout for the configId erased and its interval cleared,
\* respectively its layout drawn.
C18_FanOutReachesEveryFrame ==
    /\ [](\A f \in Frames \ {Top} :
            /\ deliveries[f] <= calls
            /\ f \notin Connected => deliveries[f] = 0)
    /\ [](\A c \in RegisteredConfigIds, en \in BOOLEAN :
            (DataLess(c, en) /\ Quiescent) => Settled(c, en))
    /\ \A c \in RegisteredConfigIds, en \in BOOLEAN :
          (DataLess(c, en) /\ last.op = "processRequest") ~> Settled(c, en)

\* In the page whose iframe holds an iframe, the host enabled with data and
\* then disabled: the innermost frame, which had drawn, has handled two
\* requests and its layout is erased and its interval cleared.
C18_Witness ==
    \E c \in RegisteredConfigIds :
        /\ calls = 2
        /\ DataLess(c, FALSE)
        /\ Settled(c, FALSE)
        /\ iframes[F1] = <<F2>>
        /\ drawers[F2][c].initialized
        /\ deliveries[F2] = 2

---------------------------------------------------------------------------
(* C19 *)

\* The nesting level of a frame: 0 for the top frame, one more than the frame
\* whose document holds its iframe element otherwise.
RECURSIVE Depth(_)
Depth(f) ==
    IF f = Top THEN 0
    ELSE 1 + Depth(CHOOSE g \in Frames : f \in Range(iframes[g]))

\* The nesting depth of the page.
NestingDepth == CHOOSE d \in 0..Cardinality(Frames) :
    /\ \E f \in Frames : Depth(f) = d
    /\ \A f \in Frames : Depth(f) <= d

\* C19: the fan-out of a command of the host terminates: the system reaches a
\* state with nothing in flight again and again.  A frame forwards only to the
\* iframes of its own document, so a request handled at nesting level d was
\* forwarded d times and d never exceeds the nesting depth of the page; no
\* request is ever sent to the top frame; no frame handles more requests than
\* the host made calls; a frame whose document has no iframes forwards
\* nothing.
C19_FanOutTerminates ==
    /\ []<>Quiescent
    /\ [](\A i \in 1..Len(last.sent) :
            /\ last.sent[i].frame \in Range(iframes[last.frame])
            /\ Depth(last.sent[i].frame) = Depth(last.frame) + 1
            /\ Depth(last.sent[i].frame) <= NestingDepth)
    /\ [](\A request \in BagToSet(network) : request.frame # Top)
    /\ [](\A f \in Frames \ {Top} : deliveries[f] <= calls)
    /\ [](iframes[last.frame] = <<>> => last.sent = <<>>)

\* In the page whose iframe holds an iframe, the innermost frame, two levels
\* down, handled the request forwarded to it and forwarded nothing: nothing is
\* in flight.
C19_Witness ==
    /\ last.op = "onTriggerVisualization"
    /\ last.frame = F2
    /\ Depth(F2) = 2
    /\ NestingDepth = 2
    /\ deliveries[F1] = calls
    /\ last.sent = <<>>
    /\ Quiescent

---------------------------------------------------------------------------
(* C20 *)

---------------------------------------------------------------------------
(* C21 *)

\* The partitioning of a list by frame f holds a frame:null partition.
HasNullPartition(f, items) ==
    LET parts == splitResultsByFrame(f, items) IN
    \E i \in 1..Len(parts) : parts[i].frame = NullFrame

\* C21: on an enable with elementResults, the current frame's drawer of the
\* configId is initialized and drawn when the partitioning holds a frame:null
\* partition, and only then: when it holds none (the results belong to
\* iframes only, or the list is empty) every drawer and every visibility
\* interval of the frame is left as it was before the call.
C21_DrawsOnlyOwnPartition ==
    [][ \A f \in Frames, c \in RegisteredConfigIds :
          (HandledEnable(f, c)' /\ last'.message.elementResults.present) =>
              IF HasNullPartition(f, last'.message.elementResults.items)
              THEN /\ drawers'[f][c].initialized
                   /\ LayoutDrawn(f, c)'
                   /\ drawers'[f][c].featureFlagStoreData = last'.message.featureFlagStoreData
              ELSE /\ drawers'[f] = drawers[f]
                   /\ intervals'[f] = intervals[f]
                   /\ last'.started = <<>> ]_vars

\* The top frame, whose drawer holds an instance of an earlier enable and whose
\* interval runs, handled an enable with the results of the second iframe
\* only: drawer and interval are as they were, one request was forwarded.
C21_Witness ==
    \E c \in RegisteredConfigIds :
        /\ HandledEnable(Top, c)
        /\ last.message.elementResults = Results(<<PageResults[4]>>)
        /\ last.message.featureFlagStoreData = FlagsOff
        /\ ~HasNullPartition(Top, last.message.elementResults.items)
        /\ drawers[Top][c].data = Results(<<PageResults[2]>>)
        /\ drawers[Top][c].featureFlagStoreData = FlagsOn
        /\ LayoutDrawn(Top, c)
        /\ IntervalRunning(Top, c)
        /\ Len(last.sent) = 1

---------------------------------------------------------------------------
(* C22 *)

\* C22: a request for configId a changes, in the frame that processes it, only
\* the drawer and the visibility interval of a: the drawer (drawn or erased,
\* data) and the interval of every other configId are as they were, the
\* drawers and intervals of the other frames are untouched, and every request
\* the call forwards carries configId a.
C22_OnlyOwnConfigId ==
    [][ \A f \in Frames, a \in RegisteredConfigIds :
          Handled(f, a)' =>
              /\ \A b \in AllConfigIds \ {a} : intervals'[f][b] = intervals[f][b]
              /\ \A b \in RegisteredConfigIds \ {a} : drawers'[f][b] = drawers[f][b]
              /\ \A g \in Frames \ {f} :
                    drawers'[g] = drawers[g] /\ intervals'[g] = intervals[g]
              /\ \A i \in 1..Len(last'.sent) :
                    /\ last'.sent[i].message.configId = a
                    /\ last'.sent[i].message.visualizationType = last'.message.visualizationType ]_vars

\* The top frame, with the layout of one configId drawn and its interval
\* running, handled a disable for the other configId: the first is still
\* drawn and its interval still runs.
C22_Witness ==
    \E a, b \in RegisteredConfigIds :
        /\ a # b
        /\ HandledDisable(Top, a)
        /\ Len(last.sent) = 2
        /\ LayoutDrawn(Top, b)
        /\ IntervalRunning(Top, b)

---------------------------------------------------------------------------
(* C23 *)

\* The position of the frame:null partition in a partitioning that holds one.
NullPartition(parts) == CHOOSE k \in 1..Len(parts) : parts[k].frame = NullFrame

\* C23 as stated: when processRequest fails because the configId is not
\* registered, the call has started no visibility-check interval and has
\* forwarded no request.
C23_FailureHasNoEffect ==
    \A f \in Frames :
        (Handled(f, last.message.configId) /\ last.threw) =>
            last.sent = <<>> /\ last.started = <<>>

\* C23, amended: when processRequest fails because the configId is not
\* registered, no drawer has changed and the feature-flag snapshot is that of
\* the message.  A disable and an enable without elementResults fail before
\* anything else is done: nothing is forwarded and no interval is started.
\* An enable with elementResults fails at its frame:null partition: the
\* partitions that precede it have been forwarded, one request each, those
\* that follow it have not, and when the instance-visibility flag is set the
\* interval of the unregistered configId has been started and runs.
C23_FailureKeepsPartialEffects ==
    [][ \A f \in Frames, c \in AllConfigIds :
          (Handled(f, c)' /\ last'.threw) =>
              LET message == last'.message IN
              /\ c \notin RegisteredConfigIds
              /\ drawers' = drawers
              /\ featureFlagStoreData'[f] = message.featureFlagStoreData
              /\ \A b \in AllConfigIds \ {c} : intervals'[f][b] = intervals[f][b]
              /\ IF ~message.isEnabled \/ ~message.elementResults.present
                 THEN /\ last'.sent = <<>>
                      /\ last'.started = <<>>
                      /\ intervals' = intervals
                 ELSE LET parts == splitResultsByFrame(f, message.elementResults.items)
                          k == NullPartition(parts)
                      IN
                      /\ HasNullPartition(f, message.elementResults.items)
                      /\ last'.sent =
                            [i \in 1..(k - 1) |->
                                createFrameRequestMessage(parts[i].frame,
                                    Message(message.visualizationType, TRUE, c,
                                            Results(parts[i].elementResults),
                                            message.featureFlagStoreData))]
                      /\ IF message.featureFlagStoreData = FlagsOn
                         THEN last'.started = <<c>> /\ intervals'[f][c] = 1
                         ELSE last'.started = <<>> /\ intervals'[f][c] = intervals[f][c] ]_vars

\* The top frame handled an enable for an unregistered configId with the flag
\* set and results of its first iframe ahead of its own: the call raised, the
\* request for the iframe was forwarded and the interval of the configId runs.
C23_Witness ==
    /\ HandledEnable(Top, UnknownConfigId)
    /\ last.threw
    /\ last.started = <<UnknownConfigId>>
    /\ IntervalRunning(Top, UnknownConfigId)
    /\ Len(last.sent) = 1
    /\ last.sent[1].frame = F1
    /\ Len(splitResultsByFrame(Top, last.message.elementResults.items)) = 3

---------------------------------------------------------------------------
(* C24 *)

\* The shown instances of the frame:null partition of a list.
ShownInCurrentFrame(f, items) ==
    LET parts == splitResultsByFrame(f, items) IN
    SelectSeq(parts[NullPartition(parts)].elementResults, Shown)

\* C24: re-enabling replaces rather than accumulates.  Every enable that
\* reaches a frame's drawer for a configId (a data-less enable, or one whose
\* elementResults hold a frame:null partition) leaves the drawer with exactly
\* the shown instances of that partition, or with no data when the enable was
\* data-less, whatever the drawer held before; every other step (a disable,
\* an enable without a frame:null partition, a step of another frame or
\* configId, a dispose) leaves the drawer's data as it was.  So the data is
\* always that of the most recent enable that reached the drawer.
C24_ReenableReplaces ==
    [][ \A f \in Frames, c \in RegisteredConfigIds :
          LET message == last'.message IN
          IF /\ HandledEnable(f, c)'
             /\ message.elementResults.present =>
                    HasNullPartition(f, message.elementResults.items)
          THEN drawers'[f][c].data =
                  IF message.elementResults.present
                  THEN Results(ShownInCurrentFrame(f, message.elementResults.items))
                  ELSE NoResults
          ELSE drawers'[f][c].data = drawers[f][c].data ]_vars

\* The top frame drew the first scan, whose request reached the first iframe,
\* and was then re-enabled with the later scan: its drawer holds the one shown
\* instance of the later scan and not the one of the first.
C24_Witness ==
    /\ HandledEnable(Top, "Issues")
    /\ last.message.elementResults = Results(LaterResults)
    /\ drawers[F1]["Issues"].data = Results(<<PageResults[1]>>)
    /\ drawers[Top]["Issues"].data = Results(<<LaterResults[2]>>)

=============================================================================
